---- MODULE Spec2Model ----
(***************************************************************************)
(* ThemeProvider (packages/core/src/components/ThemeProvider).             *)
(*                                                                         *)
(* Several ThemeProvider instances live in one document.  The document is  *)
(* the shared state: the <style> nodes of document.head and the class list *)
(* of document.body.  Every instance carries its props, its hook state     *)
(* (useState, useMemo, the two effects' stored dependencies and cleanup    *)
(* closures) and the output of its last render.                            *)
(*                                                                         *)
(* React drives an instance in steps: the function body (a render), the    *)
(* layout effect's cleanup and body, the passive effect's cleanup and      *)
(* body, and the re-render a state change schedules.  Steps of different   *)
(* instances interleave; each step is atomic (single-threaded scheduling). *)
(***************************************************************************)
EXTENDS Integers, Sequences, FiniteSets, TLC

\* ------------------------------------------------------------------ bounds
\* Prop changes (renders by the parent with a changed prop) over a run.
MaxUpdates == 1

\* ------------------------------------------------------------------ inputs
\* The ThemeProvider instances of the tree: each is mounted once and, once
\* unmounted, is gone.
Slots == {"p", "q"}

\* An absent optional prop (undefined, or the empty string: both falsy).
None == ""

\* The theme objects a caller passes; the value is the object's identity.
ThemeIds == {"brand", "other", "plain"}

ThemeName(t) ==
    CASE t = "brand" -> "brand"
      [] t = "other" -> "other"
      [] t = "plain" -> "plain"
      [] OTHER       -> None

\* colors: the variants in insertion order, each with the value of the
\* one color token of the model.
ThemeColors(t) ==
    CASE t = "brand" -> << <<"light", "#fff">>, <<"dark", "#000">> >>
      [] t = "other" -> << <<"dark", "#111">> >>
      [] OTHER       -> << >>

SystemThemes == {"light", "dark"}
CustomSpecifiers == {"abc"}
\* What generateRandomAlphaString() can return.
RandomTokens == {"rndA", "rndB"}
\* props.className is fixed by the call site: slot p passes one, slot q none.
ClassNameOf(i) == IF i = "p" THEN "extra" ELSE None

\* ------------------------------------------------------------------ utils
SystemThemeClassName(v) ==
    CASE v = "light" -> "light-app-theme"
      [] v = "dark"  -> "dark-app-theme"
      [] OTHER       -> None

isAnySystemThemeClassNameOnBody(b) ==
    \E v \in SystemThemes : SystemThemeClassName(v) \in b

addSystemThemeClassNameToBody(b, v) == b \cup {SystemThemeClassName(v)}

removeSystemThemeClassNameFromBody(b, v) == b \ {SystemThemeClassName(v)}

shouldGenerateTheme(t) == t # None /\ Len(ThemeColors(t)) > 0

\* One rule per variant, in the order of the theme's colors: the selector
\* is the variant's body class with .name.specifier under it.
generateThemeCssOverride(t, specifier) ==
    [k \in 1..Len(ThemeColors(t)) |->
        [selector |-> << SystemThemeClassName(ThemeColors(t)[k][1]),
                         ThemeName(t), specifier >>,
         value    |-> ThemeColors(t)[k][2]]]

\* classnames(): the truthy arguments, in order.
RECURSIVE cx(_)
cx(args) ==
    IF args = << >> THEN << >>
    ELSE IF Head(args) = None THEN cx(Tail(args))
         ELSE << Head(args) >> \o cx(Tail(args))

\* ------------------------------------------------------------------ DOM
\* Mutant: the lookup never finds the node.
getElementById_NeverFinds(h, id) == FALSE

getElementById(h, id) == \E k \in 1..Len(h) : h[k].id = id

Contains(h, node) == \E k \in 1..Len(h) : h[k] = node

FirstIndex(h, node) == CHOOSE k \in 1..Len(h) : h[k] = node /\ \A m \in 1..(k - 1) : h[m] # node

\* parent.removeChild(node) of a child of parent.
removeChild(h, node) ==
    LET k == FirstIndex(h, node)
    IN  SubSeq(h, 1, k - 1) \o SubSeq(h, k + 1, Len(h))

\* ------------------------------------------------------------------ state
VARIABLES
    head,          \* document.head: the sequence of style nodes
    body,          \* document.body.classList
    status,        \* "uninit" | "mounted" | "unmounted"
    themeConfig,   \* props.themeConfig (None when absent)
    customSpecifier, \* props.themeClassSpecifier
    systemTheme,   \* props.systemTheme
    stylesLoaded,  \* useState(false)
    themeClassSpecifier, \* useMemo value
    layoutDeps,    \* dependencies the layout effect last ran with
    markerCleanup, \* the layout effect's cleanup: its systemTheme, or None
    styleDeps,     \* dependencies the stylesheet effect last ran with
    styleCleanup,  \* the stylesheet effect's cleanup: << styleElement >> or << >>
    out,           \* what the last render returned
    loadState,     \* outcome of the last stylesheet effect run ("Failed":
                   \* the catch block ran and console.error logged the error)
    thrown,        \* an exception escaped a cleanup or an effect of this
                   \* instance
    pre,           \* head and body when the instance was mounted, kept
                   \* until another instance changes the document, and
                   \* past the unmount of an instance that took down a
                   \* marker and a stylesheet of its own
    nUpdates       \* prop changes so far

vars == << head, body, status, themeConfig, customSpecifier, systemTheme,
           stylesLoaded, themeClassSpecifier, layoutDeps,
           markerCleanup, styleDeps, styleCleanup, out, loadState,
           thrown, pre, nUpdates >>

props == << themeConfig, customSpecifier, systemTheme >>

Unset == "unset"
NoDeps == [specifier |-> Unset, theme |-> Unset]
NoOutput == [kind |-> "NoOutput", classes |-> << >>]
NoSnapshot == [kept |-> FALSE, head |-> << >>, body |-> {}]

Init ==
    /\ head = << >>
    /\ body = {}
    /\ status = [i \in Slots |-> "uninit"]
    /\ themeConfig = [i \in Slots |-> None]
    /\ customSpecifier = [i \in Slots |-> None]
    /\ systemTheme = [i \in Slots |-> None]
    /\ stylesLoaded = [i \in Slots |-> FALSE]
    /\ themeClassSpecifier = [i \in Slots |-> None]
    /\ layoutDeps = [i \in Slots |-> Unset]
    /\ markerCleanup = [i \in Slots |-> None]
    /\ styleDeps = [i \in Slots |-> NoDeps]
    /\ styleCleanup = [i \in Slots |-> << >>]
    /\ out = [i \in Slots |-> NoOutput]
    /\ loadState = [i \in Slots |-> "None"]
    /\ thrown = [i \in Slots |-> FALSE]
    /\ pre = [i \in Slots |-> NoSnapshot]
    /\ nUpdates = 0

\* ------------------------------------------------------------------ render
\* Mutant: the scope specifier is put in front of the theme name.
RenderOutput_SpecifierFirst(t, loaded, specifier, cls) ==
    IF ~loaded /\ shouldGenerateTheme(t)
    THEN NoOutput
    ELSE [kind |-> "Node", classes |-> cx(<< specifier, ThemeName(t), cls >>)]

\* Mutant: the gate holds back every render until the styles are loaded.
RenderOutput_GatesAlways(t, loaded, specifier, cls) ==
    IF ~loaded
    THEN NoOutput
    ELSE [kind |-> "Node", classes |-> cx(<< ThemeName(t), specifier, cls >>)]

\* The function body's return value.
RenderOutput(t, loaded, specifier, cls) ==
    IF ~loaded /\ shouldGenerateTheme(t)
    THEN NoOutput
    ELSE [kind |-> "Node", classes |-> cx(<< ThemeName(t), specifier, cls >>)]

\* Which effects React still has to run for the instance.
LayoutPending(i) == status[i] = "mounted" /\ layoutDeps[i] # systemTheme[i]
StylePending(i) ==
    /\ status[i] = "mounted"
    /\ styleDeps[i] # [specifier |-> themeClassSpecifier[i], theme |-> themeConfig[i]]
EffectsDone(i) == status[i] = "mounted" /\ ~LayoutPending(i) /\ ~StylePending(i)

CurrentStyleDeps(i) == [specifier |-> themeClassSpecifier[i], theme |-> themeConfig[i]]

\* A step of instance i that changes the document invalidates the snapshots
\* of the other instances.
Disturb(i) ==
    pre' = [j \in Slots |->
        IF j # i /\ (head' # head \/ body' # body) THEN NoSnapshot ELSE pre[j]]

\* Mutant: the factory runs on every render.
MemoSpecifiers_NoCache(i, mounting, cs) ==
    IF cs # None THEN {cs} ELSE RandomTokens

\* useMemo(() => customThemeClassSpecifier || generateRandomAlphaString(),
\*         [customThemeClassSpecifier])
MemoSpecifiers(i, mounting, cs) ==
    IF ~mounting /\ cs = customSpecifier[i] THEN {themeClassSpecifier[i]}
    ELSE IF cs # None THEN {cs}
    ELSE RandomTokens

\* ------------------------------------------------------------------ actions
\* A parent renders <ThemeProvider ...> in slot i for the first time: the
\* function body runs with fresh hook state.
Mount(i) ==
    /\ status[i] = "uninit"
    /\ \E t \in ThemeIds \cup {None}, cs \in CustomSpecifiers \cup {None},
          st \in SystemThemes \cup {None} :
        \E sp \in MemoSpecifiers(i, TRUE, cs) :
          /\ themeConfig' = [themeConfig EXCEPT ![i] = t]
          /\ customSpecifier' = [customSpecifier EXCEPT ![i] = cs]
          /\ systemTheme' = [systemTheme EXCEPT ![i] = st]
          /\ themeClassSpecifier' = [themeClassSpecifier EXCEPT ![i] = sp]
          /\ out' = [out EXCEPT ![i] = RenderOutput(t, FALSE, sp, ClassNameOf(i))]
    /\ status' = [status EXCEPT ![i] = "mounted"]
    /\ pre' = [pre EXCEPT ![i] = [kept |-> TRUE, head |-> head, body |-> body]]
    /\ UNCHANGED << head, body, stylesLoaded, layoutDeps, markerCleanup, styleDeps,
                    styleCleanup, loadState, thrown, nUpdates >>

\* Mutant: the cleanup runs and leaves the class on the body.
LayoutCleanup_KeepsClass(i) ==
    /\ LayoutPending(i)
    /\ markerCleanup[i] # None
    /\ markerCleanup' = [markerCleanup EXCEPT ![i] = None]
    /\ UNCHANGED << head, body, status, props, stylesLoaded, themeClassSpecifier,
                    layoutDeps, styleDeps, styleCleanup, out, loadState, thrown,
                    pre, nUpdates >>

\* The layout effect's cleanup: removeSystemThemeClassNameFromBody(systemTheme)
\* with the systemTheme the effect closed over.
LayoutCleanup(i) ==
    /\ LayoutPending(i)
    /\ markerCleanup[i] # None
    /\ body' = removeSystemThemeClassNameFromBody(body, markerCleanup[i])
    /\ markerCleanup' = [markerCleanup EXCEPT ![i] = None]
    /\ UNCHANGED head
    /\ Disturb(i)
    /\ UNCHANGED << status, props, stylesLoaded, themeClassSpecifier, layoutDeps,
                    styleDeps, styleCleanup, out, loadState, thrown,
                    nUpdates >>

\* Mutant: the effect does not look at the body before it adds its class.
MarkerAlreadyOnBody_Unchecked(i) == FALSE

\* Mutant: the effect looks for its own class only.
MarkerAlreadyOnBody_OwnOnly(i) == SystemThemeClassName(systemTheme[i]) \in body

\* if (isAnySystemThemeClassNameOnBody()) return;
MarkerAlreadyOnBody(i) == isAnySystemThemeClassNameOnBody(body)

\* The layout effect's body.
LayoutEffect(i) ==
    /\ LayoutPending(i)
    /\ markerCleanup[i] = None
    /\ IF systemTheme[i] = None
       THEN UNCHANGED << body, markerCleanup >>
       ELSE IF MarkerAlreadyOnBody(i)
            THEN UNCHANGED << body, markerCleanup >>
            ELSE /\ body' = addSystemThemeClassNameToBody(body, systemTheme[i])
                 /\ markerCleanup' = [markerCleanup EXCEPT ![i] = systemTheme[i]]
    /\ layoutDeps' = [layoutDeps EXCEPT ![i] = systemTheme[i]]
    /\ UNCHANGED head
    /\ Disturb(i)
    /\ UNCHANGED << status, props, stylesLoaded, themeClassSpecifier,
                    styleDeps, styleCleanup, out, loadState, thrown,
                    nUpdates >>

\* document.head.removeChild(styleElement) raises a NotFoundError when the
\* element is not a child of head.
RemoveStyleElementThrows(h, cleanup) == cleanup # << >> /\ ~Contains(h, cleanup[1])

\* Mutant: the cleanup keeps the element while another mounted instance uses
\* the element's theme name.
RemoveStyleElement_RefCounted(h, cleanup) ==
    IF /\ cleanup # << >>
       /\ Contains(h, cleanup[1])
       /\ ~\E j \in Slots :
              /\ j # cleanup[1].owner
              /\ status[j] = "mounted"
              /\ ThemeName(themeConfig[j]) = cleanup[1].id
    THEN removeChild(h, cleanup[1])
    ELSE h

\* Mutant: the cleanup leaves the element in the head.
RemoveStyleElement_Keeps(h, cleanup) == h

RemoveStyleElement(h, cleanup) ==
    IF cleanup # << >> /\ Contains(h, cleanup[1]) THEN removeChild(h, cleanup[1]) ELSE h

\* The stylesheet effect's cleanup.
StyleCleanup(i) ==
    /\ ~LayoutPending(i)
    /\ StylePending(i)
    /\ styleCleanup[i] # << >>
    /\ head' = RemoveStyleElement(head, styleCleanup[i])
    /\ thrown' = [thrown EXCEPT ![i] = @ \/ RemoveStyleElementThrows(head, styleCleanup[i])]
    /\ styleCleanup' = [styleCleanup EXCEPT ![i] = << >>]
    /\ UNCHANGED body
    /\ Disturb(i)
    /\ UNCHANGED << status, props, stylesLoaded, themeClassSpecifier, layoutDeps,
                    markerCleanup, styleDeps, out, loadState, nUpdates >>

\* Mutant: the CSS is generated without the scope specifier.
StyleElement_NoSpecifier(i) ==
    [owner |-> i,
     id    |-> ThemeName(themeConfig[i]),
     text  |-> generateThemeCssOverride(themeConfig[i], None)]

\* const styleElement = document.createElement("style") with its id and text.
StyleElement(i) ==
    [owner |-> i,
     id    |-> ThemeName(themeConfig[i]),
     text  |-> generateThemeCssOverride(themeConfig[i], themeClassSpecifier[i])]

\* Mutant: the state is flipped instead of set.
SetStylesLoaded_Toggles(i) == stylesLoaded' = [stylesLoaded EXCEPT ![i] = ~@]

\* Mutant: the state is never set.
SetStylesLoaded_Forgotten(i) == UNCHANGED stylesLoaded

\* setStylesLoaded(true); the re-render it schedules is Render.
SetStylesLoaded(i) == stylesLoaded' = [stylesLoaded EXCEPT ![i] = TRUE]

\* Mutant: a cleanup for the node that was found is returned.
ExistingNodeBranch_RegistersTeardown(i) ==
    /\ SetStylesLoaded(i)
    /\ loadState' = [loadState EXCEPT ![i] = "AlreadyLoaded"]
    /\ styleCleanup' = [styleCleanup EXCEPT ![i] =
          << head[CHOOSE k \in 1..Len(head) : head[k].id = ThemeName(themeConfig[i])] >>]
    /\ UNCHANGED head

\* Mutant: an existing node gets this instance's CSS written into it.
ExistingNodeBranch_Overwrites(i) ==
    /\ SetStylesLoaded(i)
    /\ loadState' = [loadState EXCEPT ![i] = "AlreadyLoaded"]
    /\ head' = [k \in 1..Len(head) |->
          IF head[k].id = ThemeName(themeConfig[i])
          THEN [head[k] EXCEPT !.text =
                  generateThemeCssOverride(themeConfig[i], themeClassSpecifier[i])]
          ELSE head[k]]
    /\ UNCHANGED styleCleanup

\* if (document.getElementById(themeConfig.name)) { setStylesLoaded(true); return; }
ExistingNodeBranch(i) ==
    /\ SetStylesLoaded(i)
    /\ loadState' = [loadState EXCEPT ![i] = "AlreadyLoaded"]
    /\ UNCHANGED << head, styleCleanup >>

\* Mutant: the cleanup closure is returned on the failure path only.
InjectBranch_NoCleanupOnSuccess(i) ==
    \/ /\ head' = Append(head, StyleElement(i))
       /\ SetStylesLoaded(i)
       /\ loadState' = [loadState EXCEPT ![i] = "Loaded"]
       /\ UNCHANGED styleCleanup
    \/ /\ loadState' = [loadState EXCEPT ![i] = "Failed"]
       /\ styleCleanup' = [styleCleanup EXCEPT ![i] = << StyleElement(i) >>]
       /\ UNCHANGED << head, stylesLoaded >>

\* The style element is built and appended inside try/catch.  Either both
\* appendChild calls succeed and setStylesLoaded(true) runs, or one of them
\* throws, the element stays out of the document and the error is logged.
\* The cleanup closure is returned on both paths.
InjectBranch(i) ==
    /\ styleCleanup' = [styleCleanup EXCEPT ![i] = << StyleElement(i) >>]
    /\ \/ /\ head' = Append(head, StyleElement(i))
          /\ SetStylesLoaded(i)
          /\ loadState' = [loadState EXCEPT ![i] = "Loaded"]
       \/ /\ loadState' = [loadState EXCEPT ![i] = "Failed"]
          /\ UNCHANGED << head, stylesLoaded >>

\* The stylesheet effect's body.
StyleEffect(i) ==
    /\ ~LayoutPending(i)
    /\ StylePending(i)
    /\ styleCleanup[i] = << >>
    /\ styleDeps' = [styleDeps EXCEPT ![i] = CurrentStyleDeps(i)]
    /\ IF ~shouldGenerateTheme(themeConfig[i])
       THEN /\ loadState' = [loadState EXCEPT ![i] = "None"]
            /\ UNCHANGED << head, stylesLoaded, styleCleanup >>
       ELSE IF getElementById(head, ThemeName(themeConfig[i]))
            THEN ExistingNodeBranch(i)
            ELSE InjectBranch(i)
    /\ UNCHANGED body
    /\ Disturb(i)
    /\ UNCHANGED << status, props, themeClassSpecifier, layoutDeps, markerCleanup,
                    out, thrown, nUpdates >>

\* The function body runs again with unchanged props: the re-render a state
\* update schedules, or a render of the parent.  useMemo sees unchanged
\* dependencies and hands back the stored specifier.
Render(i) ==
    /\ EffectsDone(i)
    /\ \E sp \in MemoSpecifiers(i, FALSE, customSpecifier[i]) :
          /\ themeClassSpecifier' = [themeClassSpecifier EXCEPT ![i] = sp]
          /\ out' = [out EXCEPT ![i] =
                RenderOutput(themeConfig[i], stylesLoaded[i], sp, ClassNameOf(i))]
    /\ UNCHANGED << head, body, status, props, stylesLoaded,
                    layoutDeps, markerCleanup, styleDeps, styleCleanup, loadState,
                    thrown, pre, nUpdates >>

\* The props a parent can pass on a later render: one of themeConfig,
\* themeClassSpecifier and systemTheme changed.
NextProps(i) ==
    LET now == [t |-> themeConfig[i], cs |-> customSpecifier[i], st |-> systemTheme[i]]
    IN  ({[now EXCEPT !.t = t] : t \in ThemeIds \cup {None}}
         \cup {[now EXCEPT !.cs = cs] : cs \in CustomSpecifiers \cup {None}}
         \cup {[now EXCEPT !.st = st] : st \in SystemThemes \cup {None}}) \ {now}

\* The parent renders the instance with a changed prop: the function body
\* runs with the instance's hook state.
Update(i) ==
    /\ EffectsDone(i)
    /\ nUpdates < MaxUpdates
    /\ \E np \in NextProps(i) :
        \E sp \in MemoSpecifiers(i, FALSE, np.cs) :
          /\ themeConfig' = [themeConfig EXCEPT ![i] = np.t]
          /\ customSpecifier' = [customSpecifier EXCEPT ![i] = np.cs]
          /\ systemTheme' = [systemTheme EXCEPT ![i] = np.st]
          /\ themeClassSpecifier' = [themeClassSpecifier EXCEPT ![i] = sp]
          /\ out' = [out EXCEPT ![i] =
                RenderOutput(np.t, stylesLoaded[i], sp, ClassNameOf(i))]
    /\ nUpdates' = nUpdates + 1
    /\ UNCHANGED << head, body, status, stylesLoaded, layoutDeps, markerCleanup,
                    styleDeps, styleCleanup, loadState, thrown, pre >>

\* The instance leaves the tree: both cleanups run, in registration order.
Unmount(i) ==
    /\ EffectsDone(i)
    /\ body' = IF markerCleanup[i] # None
               THEN removeSystemThemeClassNameFromBody(body, markerCleanup[i])
               ELSE body
    /\ head' = RemoveStyleElement(head, styleCleanup[i])
    /\ thrown' = [thrown EXCEPT ![i] = @ \/ RemoveStyleElementThrows(head, styleCleanup[i])]
    /\ pre' = [j \in Slots |->
          IF j = i
          THEN IF markerCleanup[i] # None /\ styleCleanup[i] # << >>
                  /\ ~RemoveStyleElementThrows(head, styleCleanup[i])
               THEN pre[i] ELSE NoSnapshot
          ELSE IF head' # head \/ body' # body THEN NoSnapshot ELSE pre[j]]
    /\ status' = [status EXCEPT ![i] = "unmounted"]
    /\ themeConfig' = [themeConfig EXCEPT ![i] = None]
    /\ customSpecifier' = [customSpecifier EXCEPT ![i] = None]
    /\ systemTheme' = [systemTheme EXCEPT ![i] = None]
    /\ stylesLoaded' = [stylesLoaded EXCEPT ![i] = FALSE]
    /\ themeClassSpecifier' = [themeClassSpecifier EXCEPT ![i] = None]
    /\ layoutDeps' = [layoutDeps EXCEPT ![i] = Unset]
    /\ markerCleanup' = [markerCleanup EXCEPT ![i] = None]
    /\ styleDeps' = [styleDeps EXCEPT ![i] = NoDeps]
    /\ styleCleanup' = [styleCleanup EXCEPT ![i] = << >>]
    /\ out' = [out EXCEPT ![i] = NoOutput]
    /\ loadState' = [loadState EXCEPT ![i] = "None"]
    /\ UNCHANGED nUpdates

Next ==
    \E i \in Slots :
        \/ Mount(i)
        \/ LayoutCleanup(i)
        \/ LayoutEffect(i)
        \/ StyleCleanup(i)
        \/ StyleEffect(i)
        \/ Render(i)
        \/ Update(i)
        \/ Unmount(i)

Spec == Init /\ [][Next]_vars

\* React runs every pending effect and every scheduled re-render; mounts, prop
\* changes and unmounts are up to the application.
ReactStep(i) ==
    \/ LayoutCleanup(i)
    \/ LayoutEffect(i)
    \/ StyleCleanup(i)
    \/ StyleEffect(i)
    \/ Render(i)

\* The specification of the render gate's progress.  The body marker plays
\* no part in the gate, so the application passes no systemTheme here; themes,
\* specifiers, prop changes, failed injections and unmounts are as in Spec.
GateMount(i) == Mount(i) /\ systemTheme'[i] = None

GateUpdate(i) == Update(i) /\ systemTheme'[i] = None

GateNext ==
    \E i \in Slots :
        \/ GateMount(i)
        \/ LayoutEffect(i)
        \/ StyleCleanup(i)
        \/ StyleEffect(i)
        \/ Render(i)
        \/ GateUpdate(i)
        \/ Unmount(i)

LiveSpec == Init /\ [][GateNext]_vars /\ \A i \in Slots : WF_vars(ReactStep(i))

\* ------------------------------------------------- without a document
\* The same component in an execution context that has no document and no
\* body (a server render, a headless runtime).  Init is the same: head and
\* body are empty and stay empty, there being nothing to change.

\* The layout effect's body where the body helpers have no surface to work
\* on: isAnySystemThemeClassNameOnBody() finds nothing, the add is a no-op
\* and the cleanup closure is returned.
HeadlessLayoutEffect(i) ==
    /\ LayoutPending(i)
    /\ markerCleanup[i] = None
    /\ markerCleanup' = [markerCleanup EXCEPT ![i] = systemTheme[i]]
    /\ layoutDeps' = [layoutDeps EXCEPT ![i] = systemTheme[i]]
    /\ UNCHANGED << head, body, status, props, stylesLoaded, themeClassSpecifier,
                    styleDeps, styleCleanup, out, loadState, thrown, pre,
                    nUpdates >>

\* The stylesheet effect's body: it returns at once for a themeConfig that
\* needs no generation; otherwise document.getElementById(...) is evaluated
\* with no document, a ReferenceError outside the try block.
HeadlessStyleEffect(i) ==
    /\ ~LayoutPending(i)
    /\ StylePending(i)
    /\ styleCleanup[i] = << >>
    /\ styleDeps' = [styleDeps EXCEPT ![i] = CurrentStyleDeps(i)]
    /\ thrown' = [thrown EXCEPT ![i] = @ \/ shouldGenerateTheme(themeConfig[i])]
    /\ loadState' = [loadState EXCEPT ![i] = "None"]
    /\ UNCHANGED << head, body, status, props, stylesLoaded, themeClassSpecifier,
                    layoutDeps, markerCleanup, styleCleanup, out, pre, nUpdates >>

\* A server render stops after Mount: no effect runs.  Where effects run,
\* they are the two above; renders, prop changes and unmounts are as in Spec.
NoDocumentNext ==
    \E i \in Slots :
        \/ Mount(i)
        \/ LayoutCleanup(i)
        \/ HeadlessLayoutEffect(i)
        \/ HeadlessStyleEffect(i)
        \/ Render(i)
        \/ Update(i)
        \/ Unmount(i)

NoDocumentSpec == Init /\ [][NoDocumentNext]_vars

\* ------------------------------------------------------------------ claims
Mounted(i) == status[i] = "mounted"

\* The style nodes of head whose id is name.
NodesWithId(h, name) == {k \in 1..Len(h) : h[k].id = name}

\* The system-theme marker classes on the body.
MarkersOn(b) == {v \in SystemThemes : SystemThemeClassName(v) \in b}

\* C1: in every reachable state the head holds at most one style node per
\* theme name.
C1_OneStylesheetPerName ==
    \A t \in ThemeIds : Cardinality(NodesWithId(head, ThemeName(t))) <= 1

\* Two mounted instances share a theme name, both stylesheet effects have run,
\* and the head holds that name's node once.
C1_Witness ==
    \E i, j \in Slots :
        /\ i # j
        /\ EffectsDone(i) /\ EffectsDone(j)
        /\ shouldGenerateTheme(themeConfig[i])
        /\ shouldGenerateTheme(themeConfig[j])
        /\ ThemeName(themeConfig[i]) = ThemeName(themeConfig[j])
        /\ themeClassSpecifier[i] # themeClassSpecifier[j]
        /\ Cardinality(NodesWithId(head, ThemeName(themeConfig[i]))) = 1

\* C2: in every reachable state the body carries at most one system-theme
\* marker class.
C2_OneMarkerOnBody == Cardinality(MarkersOn(body)) <= 1

\* Two mounted instances asked for different system themes, both layout
\* effects have run, and the body carries one marker.
C2_Witness ==
    \E i, j \in Slots :
        /\ Mounted(i) /\ Mounted(j)
        /\ systemTheme[i] = "light" /\ systemTheme[j] = "dark"
        /\ ~LayoutPending(i) /\ ~LayoutPending(j)
        /\ Cardinality(MarkersOn(body)) = 1

\* The last run of the stylesheet effect was for the current theme name and
\* ended with a node created or found.
InjectionCompleted(i) ==
    /\ loadState[i] \in {"Loaded", "AlreadyLoaded"}
    /\ styleDeps[i].theme # Unset
    /\ ThemeName(styleDeps[i].theme) = ThemeName(themeConfig[i])

\* C3: whenever an instance whose current themeConfig requires generation has
\* rendered its wrapper and child, its stylesheet injection for the current
\* theme name has completed.
C3_GatedOnCurrentInjection ==
    \A i \in Slots :
        (Mounted(i) /\ shouldGenerateTheme(themeConfig[i]) /\ out[i].kind = "Node")
            => InjectionCompleted(i)

\* No effect is pending for the instance and a further render would return
\* what the last one returned.
Settled(i) ==
    /\ EffectsDone(i)
    /\ out[i] = RenderOutput(themeConfig[i], stylesLoaded[i],
                             themeClassSpecifier[i], ClassNameOf(i))

\* C4: an instance whose injection failed still reaches Ready: once it is
\* settled it renders its child.
C4_FailureStillRenders ==
    \A i \in Slots : (Settled(i) /\ loadState[i] = "Failed") => out[i].kind = "Node"

\* C5: a layout effect that runs for a systemTheme while a marker is on the
\* body leaves the body as it is, and while an instance holds the marker the
\* body carries that instance's variant and no other.
C5_FirstWriterWins ==
    /\ [][\A i \in Slots :
            (LayoutEffect(i) /\ systemTheme[i] # None /\ MarkersOn(body) # {})
                => body' = body]_vars
    /\ [](\A i \in Slots :
            markerCleanup[i] # None => MarkersOn(body) = {markerCleanup[i]})

\* Instance i claimed the marker first; j asked for the other variant, its
\* layout effect has run, and the body still carries only i's class.
C5_Witness ==
    \E i, j \in Slots :
        /\ Mounted(i) /\ Mounted(j)
        /\ markerCleanup[i] = "light"
        /\ systemTheme[j] = "dark" /\ layoutDeps[j] = "dark"
        /\ markerCleanup[j] = None
        /\ body = {SystemThemeClassName("light")}

\* C6: an instance that added a body marker and injected a stylesheet, and
\* during whose lifetime no other instance changed the document, leaves head
\* and body on unmount as they were before its mount.
C6_UnmountSymmetry ==
    \A i \in Slots :
        (status[i] = "unmounted" /\ pre[i].kept)
            => (head = pre[i].head /\ body = pre[i].body)

\* An instance has been unmounted after holding a marker and a stylesheet,
\* while another instance is mounted.
C6_Witness ==
    \E i, j \in Slots :
        /\ status[i] = "unmounted" /\ pre[i].kept
        /\ Mounted(j)

\* C7: a stylesheet effect that runs while a node with the theme's name is in
\* the head creates no node, leaves every node of the head as it is, registers
\* no cleanup and marks the instance loaded.
C7_ExistingNodeUntouched ==
    [][\A i \in Slots :
        (StyleEffect(i) /\ shouldGenerateTheme(themeConfig[i])
            /\ NodesWithId(head, ThemeName(themeConfig[i])) # {})
        => (head' = head /\ stylesLoaded'[i] /\ styleCleanup'[i] = << >>
            /\ loadState'[i] = "AlreadyLoaded")]_vars

\* An instance found a node of its theme name whose text is not the CSS the
\* instance generates.
C7_Witness ==
    \E i \in Slots :
        /\ EffectsDone(i)
        /\ loadState[i] = "AlreadyLoaded"
        /\ \E k \in NodesWithId(head, ThemeName(themeConfig[i])) :
              head[k].text # generateThemeCssOverride(themeConfig[i], themeClassSpecifier[i])

\* C8: a mounted instance with a themeConfig requiring generation whose
\* injection created or found a node eventually renders its child (unless it
\* is unmounted first), and from then on renders it for as long as it is
\* mounted.
C8_LoadedEventuallyRenders ==
    /\ \A i \in Slots :
        (Mounted(i) /\ shouldGenerateTheme(themeConfig[i])
            /\ loadState[i] \in {"Loaded", "AlreadyLoaded"})
        ~> (out[i].kind = "Node" \/ status[i] = "unmounted")
    /\ [][\A i \in Slots :
            (stylesLoaded[i] /\ out[i].kind = "Node" /\ status'[i] = "mounted")
                => out'[i].kind = "Node"]_vars

\* Two instances with one theme name and different specifiers both render
\* their child: one created the stylesheet, the other found it.
C8_Witness ==
    \E i, j \in Slots :
        /\ Mounted(i) /\ Mounted(j)
        /\ ThemeName(themeConfig[i]) = ThemeName(themeConfig[j])
        /\ themeClassSpecifier[i] # themeClassSpecifier[j]
        /\ loadState[i] = "Loaded" /\ loadState[j] = "AlreadyLoaded"
        /\ out[i].kind = "Node" /\ out[j].kind = "Node"
        /\ shouldGenerateTheme(themeConfig[i]) /\ shouldGenerateTheme(themeConfig[j])

\* The stylesheet effect of instance i runs again after a change of its
\* dependencies (its cleanup, if any, has run).
StyleEffectRerun(i) == StyleEffect(i) /\ styleDeps[i] # NoDeps

\* The head holds a node of the instance's theme name with the CSS generated
\* from the instance's themeConfig and specifier.
HoldsOwnCss(h, i) ==
    \E k \in NodesWithId(h, ThemeName(themeConfig[i])) :
        h[k].text = generateThemeCssOverride(themeConfig[i], themeClassSpecifier[i])

\* C9 as claimed: when the stylesheet effect re-runs after a change of the
\* specifier or of themeConfig, no stylesheet of the name the instance was
\* using is left in the head, and after the re-run the head holds a stylesheet
\* of the new name with the CSS of the new values (a re-run whose append
\* throws is set aside).
C9_RerunReplacesStylesheet ==
    [][\A i \in Slots :
        StyleEffectRerun(i) =>
            /\ loadState[i] \in {"Loaded", "AlreadyLoaded"}
                  => NodesWithId(head, ThemeName(styleDeps[i].theme)) = {}
            /\ (shouldGenerateTheme(themeConfig[i]) /\ loadState'[i] # "Failed")
                  => HoldsOwnCss(head', i)]_vars

\* C9 amended: when the stylesheet effect re-runs, the node the instance
\* itself created is out of the head.  If the new themeConfig requires
\* generation, then a node of the new name that is in the head stays and the
\* head is unchanged; with none in the head, either exactly the node with
\* the CSS of the new values is appended, or the append throws and the head is
\* unchanged.  Otherwise the head is unchanged.
C9_RerunRemovesOwnThenInjects ==
    [][\A i \in Slots :
        StyleEffectRerun(i) =>
            /\ \A k \in 1..Len(head) : head[k].owner # i
            /\ IF shouldGenerateTheme(themeConfig[i])
                  /\ NodesWithId(head, ThemeName(themeConfig[i])) = {}
               THEN \/ /\ head' = Append(head, StyleElement(i))
                       /\ HoldsOwnCss(head', i)
                       /\ loadState'[i] = "Loaded"
                    \/ /\ head' = head
                       /\ loadState'[i] = "Failed"
               ELSE head' = head]_vars

\* The dependencies of an instance that had created a stylesheet changed, its
\* cleanup has taken the node out of the head, and the effect is about to run
\* again for a themeConfig requiring generation.
C9_Witness ==
    \E i \in Slots :
        /\ StylePending(i) /\ ~LayoutPending(i)
        /\ styleDeps[i] # NoDeps
        /\ loadState[i] = "Loaded"
        /\ styleCleanup[i] = << >>
        /\ \A k \in 1..Len(head) : head[k].owner # i
        /\ shouldGenerateTheme(themeConfig[i])

\* C10: the stylesheet teardown run by an unmount whose style element is not
\* in the head raises no error and leaves the head unchanged.
C10_TeardownToleratesAbsence ==
    [][\A i \in Slots :
        (Unmount(i) /\ styleCleanup[i] # << >> /\ ~Contains(head, styleCleanup[i][1]))
            => (head' = head /\ ~thrown'[i])]_vars

\* The nodes of h that instance i created.
NodesOwnedBy(h, i) == {k \in 1..Len(h) : h[k].owner = i}

\* The scope specifier followed by the caller's className, if one is given.
ScopeThenClassName(i) ==
    << themeClassSpecifier[i] >>
        \o (IF ClassNameOf(i) = None THEN << >> ELSE << ClassNameOf(i) >>)

\* themeConfig.name, if a themeConfig is given, then the scope specifier, then
\* the caller's className, if one is given.
NameThenScopeThenClassName(i) ==
    (IF themeConfig[i] = None THEN << >> ELSE << ThemeName(themeConfig[i]) >>)
        \o ScopeThenClassName(i)

\* A stylesheet effect run for a themeConfig that needs no generation leaves
\* the head alone and registers no cleanup.
NoStylesheetWork ==
    [][\A i \in Slots :
        (StyleEffect(i) /\ ~shouldGenerateTheme(themeConfig[i]))
            => (head' = head /\ styleCleanup'[i] = << >>)]_vars

\* C11 as claimed: an instance whose themeConfig is absent or has no variant
\* entries creates no stylesheet node, registers no stylesheet teardown,
\* renders its child from the first render on, and its wrapper's class list
\* is the scope specifier followed only by the optional className.
C11_NoThemeOnlyScopeClass ==
    /\ NoStylesheetWork
    /\ [](\A i \in Slots :
            (Mounted(i) /\ ~shouldGenerateTheme(themeConfig[i]))
                => /\ out[i].kind = "Node"
                   /\ out[i].classes = ScopeThenClassName(i)
                   /\ EffectsDone(i)
                         => (styleCleanup[i] = << >> /\ NodesOwnedBy(head, i) = {}))

\* C11 amended: as claimed, except for the class list: it is the scope
\* specifier followed by the optional className when themeConfig is absent,
\* and is led by themeConfig.name when a themeConfig without variant entries
\* is given.
C11_NoThemeNoGating ==
    /\ NoStylesheetWork
    /\ [](\A i \in Slots :
            (Mounted(i) /\ ~shouldGenerateTheme(themeConfig[i]))
                => /\ out[i].kind = "Node"
                   /\ out[i].classes = NameThenScopeThenClassName(i)
                   /\ EffectsDone(i)
                         => (styleCleanup[i] = << >> /\ NodesOwnedBy(head, i) = {}))

\* An instance was mounted with a themeConfig that has a name and no variant
\* entries; its effects have run and it renders its child.
C11_Witness ==
    \E i \in Slots :
        /\ EffectsDone(i)
        /\ themeConfig[i] # None
        /\ ~shouldGenerateTheme(themeConfig[i])
        /\ styleDeps[i].theme = themeConfig[i]
        /\ out[i].kind = "Node"
        /\ head = << >>

\* C12: whenever an instance renders output, the output is the wrapper node
\* around the child, and the wrapper's class list is themeConfig.name (if a
\* themeConfig is given), then the scope specifier, then the caller's
\* className (if given), absent entries left out.
C12_WrapperClassOrder ==
    \A i \in Slots :
        (Mounted(i) /\ out[i] # NoOutput)
            => /\ out[i].kind = "Node"
               /\ out[i].classes = NameThenScopeThenClassName(i)
               /\ \A k \in 1..Len(out[i].classes) : out[i].classes[k] # None

\* One instance renders with all three entries, the other with the scope
\* specifier alone.
C12_Witness ==
    \E i, j \in Slots :
        /\ Settled(i) /\ Settled(j)
        /\ shouldGenerateTheme(themeConfig[i])
        /\ Len(out[i].classes) = 3
        /\ out[i].classes[2] = customSpecifier[i]
        /\ themeConfig[j] = None
        /\ out[j].classes = << themeClassSpecifier[j] >>
        /\ themeClassSpecifier[j] \in RandomTokens

C14_NoDocumentStillRenders ==
    \A i \in Slots :
        Mounted(i)
            => /\ ~thrown[i]
               /\ head = << >> /\ body = {}
               /\ out[i].kind = "Node"
               /\ out[i].classes = NameThenScopeThenClassName(i)

\* C15: the unmount of the instance that created a stylesheet takes the node
\* of that name out of the head, and the unmount of the instance that claimed
\* the body marker takes the marker off the body, whichever other instances
\* are mounted; every other mounted instance keeps what it renders and its
\* loaded state, and no effect of it becomes pending (it neither injects the
\* stylesheet again nor claims the marker).
C15_TeardownNotRefCounted ==
    [][\A i \in Slots :
        Unmount(i) =>
            /\ (styleCleanup[i] # << >> /\ Contains(head, styleCleanup[i][1]))
                  => NodesWithId(head', styleCleanup[i][1].id) = {}
            /\ markerCleanup[i] # None => MarkersOn(body') = {}
            /\ \A j \in Slots \ {i} :
                  Mounted(j) =>
                      /\ out'[j] = out[j]
                      /\ stylesLoaded'[j] = stylesLoaded[j]
                      /\ StylePending(j)' = StylePending(j)
                      /\ LayoutPending(j)' = LayoutPending(j)
                      /\ styleCleanup'[j] = styleCleanup[j]
                      /\ markerCleanup'[j] = markerCleanup[j]]_vars

\* The creator of the stylesheet and claimant of the marker has been
\* unmounted; the instance that found both is still mounted, renders its
\* child with the theme name as a class, and neither the node nor a marker
\* is in the document.
C15_Witness ==
    \E i, j \in Slots :
        /\ status[i] = "unmounted"
        /\ Settled(j)
        /\ shouldGenerateTheme(themeConfig[j])
        /\ loadState[j] = "AlreadyLoaded"
        /\ out[j].kind = "Node"
        /\ out[j].classes[1] = ThemeName(themeConfig[j])
        /\ NodesWithId(head, ThemeName(themeConfig[j])) = {}
        /\ systemTheme[j] # None
        /\ markerCleanup[j] = None
        /\ MarkersOn(body) = {}

\* Some step of instance i.
StepOf(i) ==
    \/ Mount(i) \/ LayoutCleanup(i) \/ LayoutEffect(i) \/ StyleCleanup(i)
    \/ StyleEffect(i) \/ Render(i) \/ Update(i) \/ Unmount(i)

\* An instance goes from uninit to mounted to unmounted and no further, and
\* an unmounted instance takes no step.
LifecycleForward ==
    \A i \in Slots :
        /\ status'[i] # status[i]
              => << status[i], status'[i] >>
                    \in {<< "uninit", "mounted" >>, << "mounted", "unmounted" >>}
        /\ status[i] = "unmounted" => ~StepOf(i)

\* C16 as claimed: the lifecycle is forward-only, and a mounted instance that
\* has rendered its child never again renders nothing while mounted, whatever
\* props change.
C16_ForwardOnly ==
    [][/\ LifecycleForward
       /\ \A i \in Slots :
            (out[i].kind = "Node" /\ status'[i] = "mounted")
                => out'[i].kind = "Node"]_vars

\* C16 amended: the lifecycle is forward-only and stylesLoaded, once true,
\* stays true while the instance is mounted.  An instance that has rendered
\* its child renders nothing again in one case only: its styles have never
\* been loaded, its themeConfig required no generation, and a prop change
\* gives it a themeConfig that does.
C16_LoadedForwardOnly ==
    [][/\ LifecycleForward
       /\ \A i \in Slots :
            /\ (stylesLoaded[i] /\ status'[i] = "mounted") => stylesLoaded'[i]
            /\ (out[i].kind = "Node" /\ status'[i] = "mounted"
                    /\ out'[i].kind # "Node")
                  => /\ ~stylesLoaded[i]
                     /\ ~shouldGenerateTheme(themeConfig[i])
                     /\ shouldGenerateTheme(themeConfig'[i])
                     /\ Update(i)]_vars

\* An instance ran its stylesheet effect for a themeConfig that required no
\* generation (it rendered its child then); its themeConfig now requires
\* generation and its last render returned nothing.
C16_Witness ==
    \E i \in Slots :
        /\ Mounted(i)
        /\ styleDeps[i].theme # Unset
        /\ ~shouldGenerateTheme(styleDeps[i].theme)
        /\ shouldGenerateTheme(themeConfig[i])
        /\ out[i] = NoOutput

\* C17: a mounted instance's scope specifier is the caller's
\* themeClassSpecifier when one is given and a generated token otherwise; it
\* keeps its value over every step in which the caller's value does not
\* change, and a re-render with unchanged props leaves no stylesheet effect
\* to run.
C17_SpecifierStable ==
    /\ [](\A i \in Slots :
            Mounted(i) =>
                IF customSpecifier[i] # None
                THEN themeClassSpecifier[i] = customSpecifier[i]
                ELSE themeClassSpecifier[i] \in RandomTokens)
    /\ [][\A i \in Slots :
            /\ (Mounted(i) /\ status'[i] = "mounted"
                    /\ customSpecifier'[i] = customSpecifier[i])
                  => themeClassSpecifier'[i] = themeClassSpecifier[i]
            /\ Render(i) => ~StylePending(i)']_vars

\* An instance with a generated token has injected its stylesheet, has been
\* rendered again with the styles loaded, and carries the token of the
\* injected CSS in its class list.
C17_Witness ==
    \E i \in Slots :
        /\ Settled(i)
        /\ customSpecifier[i] = None
        /\ loadState[i] = "Loaded"
        /\ out[i].kind = "Node"
        /\ out[i].classes[2] = themeClassSpecifier[i]
        /\ styleCleanup[i] # << >>
        /\ styleCleanup[i][1].text =
              generateThemeCssOverride(themeConfig[i], themeClassSpecifier[i])
        /\ Contains(head, styleCleanup[i][1])

C19_NoLeak ==
    /\ \A k \in 1..Len(head) :
          /\ Mounted(head[k].owner)
          /\ styleCleanup[head[k].owner] = << head[k] >>
    /\ \A v \in MarkersOn(body) :
          \E i \in Slots : Mounted(i) /\ markerCleanup[i] = v
    /\ (\A i \in Slots : ~Mounted(i)) => (head = << >> /\ MarkersOn(body) = {})

\* Both instances have been unmounted, after a prop change and after one of
\* them held a marker and a stylesheet; head and body are empty.
C19_Witness ==
    /\ \A i \in Slots : status[i] = "unmounted"
    /\ \E i \in Slots : pre[i].kept
    /\ nUpdates = MaxUpdates
    /\ head = << >>
    /\ body = {}
====
